---------------------------- MODULE Spec2Model ----------------------------
(***************************************************************************)
(* IDAStarFinder (src/src/finders/IDAStarFinder.js): the iterative         *)
(* deepening A* path finder, as a state machine.                           *)
(*                                                                         *)
(* Two finders are constructed from the same options, one with             *)
(* trackRecursion on and one with it off, and each runs findPath with the  *)
(* same arguments on its own copy of the same grid.  The two calls take    *)
(* their steps alternately (turn), and read the same clock.  A call is     *)
(* named by its finder's trackRecursion option.                            *)
(*                                                                         *)
(* Numbers.  Every cost in the search is a sum of step costs 1 and         *)
(* Math.SQRT2 and of heuristic values, which for the heuristics modelled   *)
(* are of the form a + b*sqrt(2) with integers a and b.  The model         *)
(* computes with the pair (a, b) exactly and compares exactly; the         *)
(* rounding of IEEE doubles is not modelled.                               *)
(***************************************************************************)
EXTENDS Integers, Sequences, FiniteSets, TLC

VARIABLES grid, args, finder, call, nodes, exceeded, turn

vars == <<grid, args, finder, call, nodes, exceeded, turn>>

(***************************************************************************)
(* Bounds of the model.                                                    *)
(***************************************************************************)
\* at most this many blocked cells in an enumerated grid
MaxBlocked == 2
\* opt.weight ranges over 1 .. MaxWeight
MaxWeight == 3
\* a call whose clock has not run out examines at most this many nodes
\* (visitedNode); a call that would examine more is cut off there
MaxVisited == 40

\* the coordinates of the enumerated grids
Xs == 0 .. 2
Ys == 0 .. 1
\* the side of the obstacle-free grid of the concrete scenario
OpenSide == 0 .. 4

\* the two finders, named by their trackRecursion option
Finders == BOOLEAN

(***************************************************************************)
(* Values: a number a + b*sqrt(2), Infinity, or a Node (a, b) = (x, y).    *)
(***************************************************************************)
Num(a, b) == [kind |-> "num", a |-> a, b |-> b]

Infinity == [kind |-> "inf", a |-> 0, b |-> 0]

NodeVal(n) == [kind |-> "node", a |-> n[1], b |-> n[2]]

Zero == Num(0, 0)

\* the sign of p + q*sqrt(2), exactly
Sign(p, q) ==
    IF p = 0 /\ q = 0 THEN 0
    ELSE IF p >= 0 /\ q >= 0 THEN 1
    ELSE IF p <= 0 /\ q <= 0 THEN -1
    ELSE IF p > 0 THEN (IF p * p > 2 * q * q THEN 1 ELSE -1)
    ELSE (IF 2 * q * q > p * p THEN 1 ELSE -1)

\* u > v on numbers and Infinity
Gt(u, v) ==
    IF u.kind = "inf" THEN v.kind # "inf"
    ELSE IF v.kind = "inf" THEN FALSE
    ELSE Sign(u.a - v.a, u.b - v.b) > 0

Lt(u, v) == Gt(v, u)

Plus(u, v) ==
    IF u.kind = "inf" \/ v.kind = "inf" THEN Infinity
    ELSE Num(u.a + v.a, u.b + v.b)

Times(u, k) == IF u.kind = "inf" THEN Infinity ELSE Num(u.a * k, u.b * k)

IsNode(t) == t.kind = "node"

Abs(n) == IF n < 0 THEN -n ELSE n

(***************************************************************************)
(* The collaborators: Grid, Heuristic.                                     *)
(***************************************************************************)
CellsOf(g) == (0 .. g.width - 1) \X (0 .. g.height - 1)

isWalkableAt(g, x, y) ==
    /\ x >= 0 /\ x < g.width
    /\ y >= 0 /\ y < g.height
    /\ <<x, y>> \notin g.blocked

\* the walkable ones among the cells cs, in the order of cs
RECURSIVE WalkableOf(_, _)
WalkableOf(g, cs) ==
    IF cs = <<>> THEN <<>>
    ELSE (IF isWalkableAt(g, Head(cs)[1], Head(cs)[2]) THEN <<Head(cs)>> ELSE <<>>)
         \o WalkableOf(g, Tail(cs))

\* up, right, down, left, then the diagonals the policy allows:
\* up-left, up-right, down-right, down-left
getNeighbors(g, n, diagonalMovement) ==
    LET x == n[1]
        y == n[2]
        s0 == isWalkableAt(g, x, y - 1)
        s1 == isWalkableAt(g, x + 1, y)
        s2 == isWalkableAt(g, x, y + 1)
        s3 == isWalkableAt(g, x - 1, y)
        both == diagonalMovement = "OnlyWhenNoObstacles"
        d0 == IF both THEN s3 /\ s0 ELSE s3 \/ s0
        d1 == IF both THEN s0 /\ s1 ELSE s0 \/ s1
        d2 == IF both THEN s1 /\ s2 ELSE s1 \/ s2
        d3 == IF both THEN s2 /\ s3 ELSE s2 \/ s3
        straight == WalkableOf(g, << <<x, y - 1>>, <<x + 1, y>>,
                                     <<x, y + 1>>, <<x - 1, y>> >>)
        diagonal ==
            (IF d0 THEN WalkableOf(g, << <<x - 1, y - 1>> >>) ELSE <<>>)
            \o (IF d1 THEN WalkableOf(g, << <<x + 1, y - 1>> >>) ELSE <<>>)
            \o (IF d2 THEN WalkableOf(g, << <<x + 1, y + 1>> >>) ELSE <<>>)
            \o (IF d3 THEN WalkableOf(g, << <<x - 1, y + 1>> >>) ELSE <<>>)
    IN  IF diagonalMovement = "Never" THEN straight ELSE straight \o diagonal

\* Heuristic.manhattan, Heuristic.octile, Heuristic.chebyshev on (dx, dy)
Heuristic(name, dx, dy) ==
    CASE name = "manhattan" -> Num(dx + dy, 0)
      [] name = "octile" ->
            IF dx < dy THEN Num(dy - dx, dx) ELSE Num(dx - dy, dy)
      [] name = "chebyshev" -> Num(IF dx > dy THEN dx ELSE dy, 0)

(***************************************************************************)
(* The constructor.                                                        *)
(***************************************************************************)
IDAStarFinder(opt) ==
    LET diagonalMovement ==
            IF opt.diagonalMovement # "undefined" THEN opt.diagonalMovement
            ELSE IF ~opt.allowDiagonal THEN "Never"
            ELSE IF opt.dontCrossCorners THEN "OnlyWhenNoObstacles"
            ELSE "IfAtMostOneObstacle"
    IN  [ diagonalMovement |-> diagonalMovement,
          heuristic |->
              IF opt.heuristic # "undefined" THEN opt.heuristic
              ELSE IF diagonalMovement = "Never" THEN "manhattan"
              ELSE "octile",
          weight |-> IF opt.weight = 0 THEN 1 ELSE opt.weight,
          trackRecursion |-> opt.trackRecursion,
          timeLimit |->
              IF opt.timeLimit = 0 THEN Infinity ELSE Num(opt.timeLimit, 0) ]

(***************************************************************************)
(* findPath's helpers h and cost.                                          *)
(***************************************************************************)
h(f, a, b) == Heuristic(f.heuristic, Abs(b[1] - a[1]), Abs(b[2] - a[2]))

cost(a, b) == IF a[1] = b[1] \/ a[2] = b[2] THEN Num(1, 0) ELSE Num(0, 1)

start == <<args.startX, args.startY>>

end == <<args.endX, args.endY>>

\* a slip: the heuristic counted twice
FHeuristicTwice(f, node, g) ==
    Plus(g, Times(Plus(h(f, node, end), h(f, node, end)), f.weight))

\* f of search: g + h(node, end) * weight
F(f, node, g) == Plus(g, Times(h(f, node, end), f.weight))

\* a variant: the first cutoff is the weighted estimate
InitialCutoffWeighted(f) == Times(h(f, start, end), f.weight)

\* the cutoff findPath starts with
InitialCutoff(f) == h(f, start, end)

\* a slip: f >= cutoff
PrunedAtOrEqual(fv, cutoff) == ~Lt(fv, cutoff)

\* "f > cutoff" of search
PrunedAt(fv, cutoff) == Gt(fv, cutoff)

\* a slip: the sign of the time limit test
TimeLimitWrongSign(f, over) == Lt(f.timeLimit, Zero) /\ over

\* the clock test of search, given whether the elapsed time exceeds the limit
TimeLimitReached(f, over) == Gt(f.timeLimit, Zero) /\ over

(***************************************************************************)
(* A JavaScript array with holes: route[depth] = v.                        *)
(***************************************************************************)
Hole == <<-1, -1>>

SetAt(route, depth, v) ==
    [k \in 1 .. (IF depth + 1 > Len(route) THEN depth + 1 ELSE Len(route)) |->
        IF k = depth + 1 THEN v
        ELSE IF k <= Len(route) THEN route[k]
        ELSE Hole]

(***************************************************************************)
(* The stack of search's activations.  A frame holds the locals of one     *)
(* activation; its depth is its position in the stack, less one.           *)
(***************************************************************************)
Frame(node, g) ==
    [node |-> node, g |-> g, neighbors |-> <<>>, i |-> 0, min |-> Infinity]

Top(c) == c.stack[Len(c.stack)]

Pop(s) == SubSeq(s, 1, Len(s) - 1)

SetTop(s, fr) == [s EXCEPT ![Len(s)] = fr]

\* the instrumentation search keeps on a neighbour before the recursive call
Retain(nd) ==
    [retainCount |-> IF nd.retainCount + 1 = 0 THEN 1 ELSE nd.retainCount + 1,
     tested |-> TRUE]

\* the instrumentation after a recursive call that returned a number
Release(nd) ==
    [retainCount |-> nd.retainCount - 1,
     tested |-> IF nd.retainCount - 1 = 0 THEN FALSE ELSE nd.tested]

(***************************************************************************)
(* The initial states: two finders, their grids, the arguments.            *)
(***************************************************************************)
Policies == {"Never", "IfAtMostOneObstacle", "undefined"}

HeuristicOptions == {"undefined", "manhattan", "chebyshev"}

\* the options: without a diagonalMovement the deprecated flags decide
OptsWith(heuristics, timeLimits) ==
    { [ allowDiagonal |-> dm = "undefined",
        dontCrossCorners |-> dm = "undefined",
        diagonalMovement |-> dm,
        heuristic |-> hn,
        weight |-> w,
        timeLimit |-> tl ] :
      dm \in Policies, hn \in heuristics, w \in 1 .. MaxWeight,
      tl \in timeLimits }

GridOf(xs, ys, B) ==
    [width |-> Cardinality(xs), height |-> Cardinality(ys), blocked |-> B]

SmallGrids ==
    { GridOf(Xs, Ys, B) :
        B \in {S \in SUBSET (Xs \X Ys) : Cardinality(S) <= MaxBlocked} }

\* a full wall of blocked cells, the second column
WalledGrid == GridOf(Xs, Ys, {1} \X Ys)

OpenGrid == GridOf(OpenSide, OpenSide, {})

IdleCall ==
    [pc |-> "idle", stack |-> <<>>, ret |-> Infinity, cutoff |-> Zero,
     route |-> <<>>, j |-> 0, visitedNode |-> 0, result |-> <<>>]

\* the tracked call's nodes are fresh; the other grid's nodes carry what an
\* earlier search left on them
InitNodes(g) ==
    [t \in Finders |->
        [c \in CellsOf(g) |->
            IF t THEN [retainCount |-> 0, tested |-> FALSE]
            ELSE [retainCount |-> 1, tested |-> TRUE]]]

InitWith(g, s, e, opt) ==
    /\ grid = g
    /\ args = [startX |-> s[1], startY |-> s[2], endX |-> e[1], endY |-> e[2]]
    /\ finder = [t \in Finders |->
                    IDAStarFinder([trackRecursion |-> t] @@ opt)]
    /\ call = [t \in Finders |-> IdleCall]
    /\ nodes = InitNodes(g)
    /\ exceeded = FALSE
    /\ turn = TRUE

\* every small grid, no time limit; start and goal walkable, or the same cell
InitSmall ==
    \E g \in SmallGrids, s \in Xs \X Ys, e \in Xs \X Ys,
       opt \in OptsWith(HeuristicOptions, {0}) :
        /\ s = e \/ (s \notin g.blocked /\ e \notin g.blocked)
        /\ InitWith(g, s, e, opt)

\* the walled grid and the small grid without obstacles, under a time limit
InitTimed ==
    \E g \in {WalledGrid, GridOf(Xs, Ys, {})}, s \in Xs \X Ys, e \in Xs \X Ys,
       opt \in OptsWith({"undefined"}, {0, 1}) :
        /\ s \notin g.blocked /\ e \notin g.blocked
        /\ InitWith(g, s, e, opt)

\* the obstacle-free grid of the concrete scenario, corner to corner
InitOpen ==
    \E opt \in OptsWith({"undefined"}, {0, 1}) :
        InitWith(OpenGrid, <<0, 0>>, <<4, 4>>, opt)

Init == InitSmall \/ InitTimed \/ InitOpen

(***************************************************************************)
(* The steps of a call t.                                                  *)
(***************************************************************************)
Step(t, c) ==
    /\ call' = [call EXCEPT ![t] = c]
    /\ turn' = ~turn

\* findPath, lines 74-80 and 145-153: up to the first call of search
FindPath(t) ==
    /\ turn = t
    /\ call[t].pc = "idle"
    /\ Step(t, [call[t] EXCEPT
            !.pc = "enter",
            !.visitedNode = 0,
            !.cutoff = InitialCutoff(finder[t]),
            !.j = 0,
            !.route = <<>>,
            !.stack = <<Frame(start, Zero)>>])
    /\ UNCHANGED <<grid, args, finder, nodes, exceeded>>

\* the clock passes the time limit (observed at the next examination)
ClockExceeds ==
    /\ turn = TRUE
    /\ call[TRUE].pc = "enter"
    /\ ~exceeded
    /\ \E t \in Finders :
          /\ Gt(finder[t].timeLimit, Zero)
          /\ finder[t].timeLimit.kind = "num"
    /\ exceeded' = TRUE
    /\ UNCHANGED <<grid, args, finder, call, nodes, turn>>

\* search, lines 100-103: the time limit is exceeded, return Infinity
TimeLimitHit(t) ==
    /\ turn = t
    /\ call[t].pc = "enter"
    /\ TimeLimitReached(finder[t], exceeded)
    /\ Step(t, [call[t] EXCEPT
            !.pc = "ret",
            !.visitedNode = @ + 1,
            !.ret = Infinity,
            !.stack = Pop(@)])
    /\ UNCHANGED <<grid, args, finder, nodes, exceeded>>

\* a slip: the pruned node returns g, not f
PrunedReturnsG(t) ==
    LET c == call[t]
        fv == F(finder[t], Top(c).node, Top(c).g)
    IN  /\ turn = t
        /\ c.pc = "enter"
        /\ ~TimeLimitReached(finder[t], exceeded)
        /\ PrunedAt(fv, c.cutoff)
        /\ Step(t, [c EXCEPT
                !.pc = "ret",
                !.visitedNode = @ + 1,
                !.ret = Top(c).g,
                !.stack = Pop(@)])
        /\ UNCHANGED <<grid, args, finder, nodes, exceeded>>

\* search, lines 105-107: f exceeds the cutoff, return f
Pruned(t) ==
    LET c == call[t]
        fv == F(finder[t], Top(c).node, Top(c).g)
    IN  /\ turn = t
        /\ c.pc = "enter"
        /\ ~TimeLimitReached(finder[t], exceeded)
        /\ PrunedAt(fv, c.cutoff)
        /\ Step(t, [c EXCEPT
                !.pc = "ret",
                !.visitedNode = @ + 1,
                !.ret = fv,
                !.stack = Pop(@)])
        /\ UNCHANGED <<grid, args, finder, nodes, exceeded>>

\* search, lines 109-112: the node is the goal
Found(t) ==
    LET c == call[t]
        fv == F(finder[t], Top(c).node, Top(c).g)
    IN  /\ turn = t
        /\ c.pc = "enter"
        /\ ~TimeLimitReached(finder[t], exceeded)
        /\ ~PrunedAt(fv, c.cutoff)
        /\ Top(c).node = end
        /\ Step(t, [c EXCEPT
                !.pc = "ret",
                !.visitedNode = @ + 1,
                !.route = SetAt(@, Len(c.stack) - 1, Top(c).node),
                !.ret = NodeVal(Top(c).node),
                !.stack = Pop(@)])
        /\ UNCHANGED <<grid, args, finder, nodes, exceeded>>

\* search, lines 114-119: fetch the neighbours, enter the loop
Expand(t) ==
    LET c == call[t]
        fv == F(finder[t], Top(c).node, Top(c).g)
    IN  /\ turn = t
        /\ c.pc = "enter"
        /\ ~TimeLimitReached(finder[t], exceeded)
        /\ ~PrunedAt(fv, c.cutoff)
        /\ Top(c).node # end
        /\ Step(t, [c EXCEPT
                !.pc = "loop",
                !.visitedNode = @ + 1,
                !.stack = SetTop(@, [Top(c) EXCEPT
                    !.neighbors = getNeighbors(grid, Top(c).node,
                                               finder[t].diagonalMovement),
                    !.i = 0,
                    !.min = Infinity])])
        /\ UNCHANGED <<grid, args, finder, nodes, exceeded>>

\* a slip: a neighbour marked tested is passed over
DescendUnlessTested(t) ==
    LET c == call[t]
        fr == Top(c)
        neighbor == fr.neighbors[fr.i + 1]
    IN  /\ turn = t
        /\ c.pc = "loop"
        /\ fr.i < Len(fr.neighbors)
        /\ c.visitedNode < MaxVisited \/ exceeded
        /\ IF nodes[t][neighbor].tested
           THEN /\ nodes' = nodes
                /\ Step(t, [c EXCEPT
                        !.stack = SetTop(@, [fr EXCEPT !.i = @ + 1])])
           ELSE /\ nodes' = IF finder[t].trackRecursion
                            THEN [nodes EXCEPT ![t][neighbor] = Retain(@)]
                            ELSE nodes
                /\ Step(t, [c EXCEPT
                        !.pc = "enter",
                        !.stack = Append(@, Frame(neighbor,
                                    Plus(fr.g, cost(fr.node, neighbor))))])
        /\ UNCHANGED <<grid, args, finder, exceeded>>

\* search, lines 119-129: the next neighbour, its instrumentation, the call
Descend(t) ==
    LET c == call[t]
        fr == Top(c)
        neighbor == fr.neighbors[fr.i + 1]
    IN  /\ turn = t
        /\ c.pc = "loop"
        /\ fr.i < Len(fr.neighbors)
        /\ c.visitedNode < MaxVisited \/ exceeded
        /\ nodes' = IF finder[t].trackRecursion
                    THEN [nodes EXCEPT ![t][neighbor] = Retain(@)]
                    ELSE nodes
        /\ Step(t, [c EXCEPT
                !.pc = "enter",
                !.stack = Append(@, Frame(neighbor, Plus(fr.g, cost(fr.node, neighbor))))])
        /\ UNCHANGED <<grid, args, finder, exceeded>>

\* search, line 142: no neighbour is left, return min
Exhausted(t) ==
    LET c == call[t]
        fr == Top(c)
    IN  /\ turn = t
        /\ c.pc = "loop"
        /\ fr.i >= Len(fr.neighbors)
        /\ Step(t, [c EXCEPT
                !.pc = "ret",
                !.ret = fr.min,
                !.stack = Pop(@)])
        /\ UNCHANGED <<grid, args, finder, nodes, exceeded>>

\* a slip: the enclosing activation does not record its node
UnwindNoRecord(t) ==
    LET c == call[t]
    IN  /\ turn = t
        /\ c.pc = "ret"
        /\ c.stack # <<>>
        /\ IsNode(c.ret)
        /\ Step(t, [c EXCEPT !.stack = Pop(@)])
        /\ UNCHANGED <<grid, args, finder, nodes, exceeded>>

\* search, lines 131-134: the recursive call found the goal
Unwind(t) ==
    LET c == call[t]
        fr == Top(c)
    IN  /\ turn = t
        /\ c.pc = "ret"
        /\ c.stack # <<>>
        /\ IsNode(c.ret)
        /\ Step(t, [c EXCEPT
                !.route = SetAt(@, Len(c.stack) - 1, fr.node),
                !.stack = Pop(@)])
        /\ UNCHANGED <<grid, args, finder, nodes, exceeded>>

\* a slip: min takes the last bound returned, not the least
BacktrackKeepsLast(t) ==
    LET c == call[t]
        fr == Top(c)
        neighbor == fr.neighbors[fr.i + 1]
    IN  /\ turn = t
        /\ c.pc = "ret"
        /\ c.stack # <<>>
        /\ ~IsNode(c.ret)
        /\ nodes' = IF finder[t].trackRecursion
                    THEN [nodes EXCEPT ![t][neighbor] = Release(@)]
                    ELSE nodes
        /\ Step(t, [c EXCEPT
                !.pc = "loop",
                !.stack = SetTop(@, [fr EXCEPT
                    !.min = c.ret,
                    !.i = @ + 1])])
        /\ UNCHANGED <<grid, args, finder, exceeded>>

\* search, lines 136-140: the recursive call returned a number
Backtrack(t) ==
    LET c == call[t]
        fr == Top(c)
        neighbor == fr.neighbors[fr.i + 1]
    IN  /\ turn = t
        /\ c.pc = "ret"
        /\ c.stack # <<>>
        /\ ~IsNode(c.ret)
        /\ nodes' = IF finder[t].trackRecursion
                    THEN [nodes EXCEPT ![t][neighbor] = Release(@)]
                    ELSE nodes
        /\ Step(t, [c EXCEPT
                !.pc = "loop",
                !.stack = SetTop(@, [fr EXCEPT
                    !.min = IF Lt(c.ret, fr.min) THEN c.ret ELSE fr.min,
                    !.i = @ + 1])])
        /\ UNCHANGED <<grid, args, finder, exceeded>>

\* findPath, line 155: the sweep returned Infinity
ReturnEmpty(t) ==
    LET c == call[t]
    IN  /\ turn = t
        /\ c.pc = "ret"
        /\ c.stack = <<>>
        /\ c.ret = Infinity
        /\ Step(t, [c EXCEPT !.pc = "done", !.result = <<>>])
        /\ UNCHANGED <<grid, args, finder, nodes, exceeded>>

\* findPath, line 157: the sweep returned a node
ReturnRoute(t) ==
    LET c == call[t]
    IN  /\ turn = t
        /\ c.pc = "ret"
        /\ c.stack = <<>>
        /\ IsNode(c.ret)
        /\ Step(t, [c EXCEPT !.pc = "done", !.result = c.route])
        /\ UNCHANGED <<grid, args, finder, nodes, exceeded>>

\* findPath, lines 159, 150-153: the next sweep, with the returned cutoff
NextSweep(t) ==
    LET c == call[t]
    IN  /\ turn = t
        /\ c.pc = "ret"
        /\ c.stack = <<>>
        /\ c.ret # Infinity
        /\ ~IsNode(c.ret)
        /\ c.visitedNode < MaxVisited \/ exceeded
        /\ Step(t, [c EXCEPT
                !.pc = "enter",
                !.cutoff = c.ret,
                !.j = @ + 1,
                !.route = <<>>,
                !.stack = <<Frame(start, Zero)>>])
        /\ UNCHANGED <<grid, args, finder, nodes, exceeded>>

Next ==
    \/ \E t \in Finders : FindPath(t)
    \/ ClockExceeds
    \/ \E t \in Finders : TimeLimitHit(t)
    \/ \E t \in Finders : Pruned(t)
    \/ \E t \in Finders : Found(t)
    \/ \E t \in Finders : Expand(t)
    \/ \E t \in Finders : Descend(t)
    \/ \E t \in Finders : Exhausted(t)
    \/ \E t \in Finders : Unwind(t)
    \/ \E t \in Finders : Backtrack(t)
    \/ \E t \in Finders : ReturnEmpty(t)
    \/ \E t \in Finders : ReturnRoute(t)
    \/ \E t \in Finders : NextSweep(t)

Spec == Init /\ [][Next]_vars

\* the calls under a time limit only, and every enabled step is taken
TimedInit == InitTimed \/ InitOpen

FairSpec == TimedInit /\ [][Next]_vars /\ WF_vars(Next)

(***************************************************************************)
(* What the properties speak of.                                           *)
(***************************************************************************)
Range(s) == {s[k] : k \in DOMAIN s}

policy == finder[TRUE].diagonalMovement

Adjacent(a, b) == b \in Range(getNeighbors(grid, a, policy))

RECURSIVE Closure(_)
Closure(S) ==
    LET N == S \cup {n \in CellsOf(grid) : \E c \in S : Adjacent(c, n)}
    IN  IF N = S THEN S ELSE Closure(N)

GoalReachable == end \in Closure({start})

NoTimeLimit == \A t \in Finders : finder[t].timeLimit = Infinity

Done(t) == call[t].pc = "done"

\* the reference step cost: 1 for an orthogonal move, sqrt(2) for a diagonal
StepCost(a, b) == IF a[1] # b[1] /\ a[2] # b[2] THEN Num(0, 1) ELSE Num(1, 0)

RECURSIVE PathCost(_)
PathCost(path) ==
    IF Len(path) <= 1 THEN Zero
    ELSE Plus(StepCost(path[1], path[2]), PathCost(Tail(path)))

Least(S) == IF S = {} THEN Infinity ELSE CHOOSE m \in S : \A x \in S : ~Lt(x, m)

\* the brute-force reference: the least cost from every cell to the goal,
\* by relaxing every edge until nothing changes (at most as often as there
\* are cells)
RECURSIVE Relaxed(_, _)
Relaxed(d, k) ==
    IF k = 0 THEN d
    ELSE LET r == [c \in CellsOf(grid) |->
                    Least({d[c]} \cup
                          {Plus(StepCost(c, n), d[n]) :
                              n \in Range(getNeighbors(grid, c, policy))})]
         IN  IF r = d THEN d ELSE Relaxed(r, k - 1)

DistToGoal ==
    Relaxed([c \in CellsOf(grid) |-> IF c = end THEN Zero ELSE Infinity],
            Cardinality(CellsOf(grid)))

\* the heuristic never exceeds the least remaining cost
Admissible ==
    LET d == DistToGoal
    IN  \A c \in CellsOf(grid) :
            d[c].kind = "num" =>
                ~Gt(h(finder[TRUE], c, end), d[c])

NoRepeats(path) ==
    \A k, l \in DOMAIN path : path[k] = path[l] => k = l

WeightedStart(t) == Times(h(finder[t], start, end), finder[t].weight)

\* the cut-off bites only where the goal cannot be reached
CutOffOnlyWhenUnreachable ==
    \A t \in Finders :
        (call[t].visitedNode >= MaxVisited /\ ~Done(t) /\ ~exceeded) =>
            ~GoalReachable

(***************************************************************************)
(* The claims.                                                             *)
(***************************************************************************)

\* C1: a non-empty path returned by findPath starts at the start coordinate,
\* ends at the goal coordinate, has no missing entry, and every element
\* after the first is a neighbour, under the finder's diagonal policy, of
\* the element before it.
C1_PathIsValid ==
    \A t \in Finders :
        (Done(t) /\ call[t].result # <<>>) =>
            LET path == call[t].result
            IN  /\ path[1] = start
                /\ path[Len(path)] = end
                /\ \A k \in DOMAIN path : path[k] # Hole
                /\ \A k \in 1 .. Len(path) - 1 : Adjacent(path[k], path[k + 1])

\* a path of five cells or more around an obstacle, with a diagonal move
C1_Witness ==
    \E t \in Finders :
        /\ Done(t)
        /\ Len(call[t].result) >= 5
        /\ grid.blocked # {}
        /\ PathCost(call[t].result).b > 0
        /\ PathCost(call[t].result).a > 0

\* C2: with weight 1, an admissible heuristic and no time limit, a call
\* with a reachable goal returns a path whose cost is the least cost from
\* start to goal of the brute-force reference; and on the obstacle-free
\* 5x5 grid with IfAtMostOneObstacle, from (0,0) to (4,4), it returns the
\* diagonal.
C2_PathIsOptimal ==
    \A t \in Finders :
        (Done(t) /\ finder[t].weight = 1 /\ NoTimeLimit /\ GoalReachable
            /\ Admissible) =>
            /\ call[t].result # <<>>
            /\ PathCost(call[t].result) = DistToGoal[start]
            /\ (grid = OpenGrid /\ policy = "IfAtMostOneObstacle"
                    /\ finder[t].heuristic = "octile") =>
                call[t].result =
                    << <<0, 0>>, <<1, 1>>, <<2, 2>>, <<3, 3>>, <<4, 4>> >>

\* an optimal path of straight and diagonal moves found after several sweeps
C2_Witness ==
    \E t \in Finders :
        /\ Done(t) /\ finder[t].weight = 1 /\ NoTimeLimit /\ GoalReachable
        /\ Admissible
        /\ grid.blocked # {}
        /\ call[t].j >= 1
        /\ PathCost(call[t].result).a > 0
        /\ PathCost(call[t].result).b > 0

\* C3 (as claimed): when the goal is not reachable from start and no time
\* limit is configured, findPath returns the empty path.  Stated for the
\* finite runs of the model: such a call has returned the empty path by
\* the time it has examined MaxVisited nodes.
C3_UnreachableReturnsEmpty ==
    \A t \in Finders :
        (call[t].visitedNode >= MaxVisited /\ NoTimeLimit /\ ~GoalReachable) =>
            (Done(t) /\ call[t].result = <<>>)

\* C4 (as claimed): once a call with recursion tracking has returned, every
\* node of its grid has retainCount 0 and tested false.
C4_InstrumentationUnwound ==
    Done(TRUE) =>
        \A c \in CellsOf(grid) :
            nodes[TRUE][c] = [retainCount |-> 0, tested |-> FALSE]

\* C5: once an examination has found the time limit exceeded, the call
\* returns, and what it returns is the empty path.
C5_TimeoutReturnsEmpty ==
    /\ [](\A t \in Finders :
            (exceeded /\ Done(t)) => call[t].result = <<>>)
    /\ exceeded ~> (\A t \in Finders : Done(t) /\ call[t].result = <<>>)

\* the limit was exceeded in a call whose goal is reachable, after the
\* first sweep, and the call has returned
C5_Witness ==
    /\ exceeded
    /\ GoalReachable
    /\ \A t \in Finders : Done(t) /\ call[t].j >= 1 /\ call[t].visitedNode >= 5

\* C6: with start = goal and the time limit not exceeded, the call examines
\* the start node, finds it to be the goal in its first sweep, and returns
\* the path of that one coordinate.
C6_StartIsGoal ==
    \A t \in Finders :
        (start = end /\ ~exceeded) =>
            \/ call[t].pc \in {"idle", "enter"} /\ call[t].j = 0
            \/ /\ call[t].pc = "ret"
               /\ call[t].j = 0
               /\ call[t].ret = NodeVal(start)
               /\ call[t].route = <<start>>
            \/ Done(t) /\ call[t].result = <<start>>

\* a call from a blocked cell to itself has returned
C6_Witness ==
    /\ start = end
    /\ start \in grid.blocked
    /\ \A t \in Finders : Done(t) /\ call[t].result = <<start>>

\* C7: within a call the cutoff never decreases from one sweep to the next.
C7_CutoffNonDecreasing ==
    [][\A t \in Finders :
          call[t].pc # "idle" => ~Lt(call'[t].cutoff, call[t].cutoff)]_vars

\* a third sweep, with a cutoff above the first one
C7_Witness ==
    \E t \in Finders :
        /\ call[t].j >= 2
        /\ Gt(call[t].cutoff, InitialCutoff(finder[t]))
        /\ finder[t].weight = 1

\* C8 (as claimed): the cutoff of the first sweep is heuristic(start, goal)
\* multiplied by the weight.
C8_FirstCutoffWeighted ==
    \A t \in Finders :
        (call[t].pc # "idle" /\ call[t].j = 0) =>
            call[t].cutoff = WeightedStart(t)

\* C8 (amended): the cutoff of the first sweep is heuristic(start, goal),
\* without the weight.  The first sweep prunes the start node exactly when
\* heuristic(start, goal) * weight exceeds it, and the second sweep then
\* runs with heuristic(start, goal) * weight.
C8_FirstCutoffUnweighted ==
    \A t \in Finders :
        LET c == call[t]
            startPruned ==
                /\ c.j = 0 /\ c.pc = "ret" /\ c.stack = <<>>
                /\ c.visitedNode = 1 /\ c.ret.kind = "num"
        IN  /\ (c.pc # "idle" /\ c.j = 0) =>
                    c.cutoff = h(finder[t], start, end)
            /\ (c.j = 0 /\ c.visitedNode = 1 /\ c.pc # "enter" /\ ~exceeded) =>
                    (startPruned <=> Gt(WeightedStart(t), h(finder[t], start, end)))
            /\ startPruned => c.ret = WeightedStart(t)
            /\ (c.j = 1 /\ Gt(WeightedStart(t), h(finder[t], start, end))) =>
                    c.cutoff = WeightedStart(t)

\* with weight 2 the start node was pruned in the first sweep
C8_Witness ==
    \E t \in Finders :
        /\ finder[t].weight > 1
        /\ call[t].j = 1
        /\ call[t].cutoff = WeightedStart(t)
        /\ call[t].cutoff # h(finder[t], start, end)

\* C9: the call with recursion tracking and the call without it, on nodes
\* with other instrumentation values, go through the same steps: after
\* equally many steps they are at the same place of the same search, with
\* the same stack, cutoff, sweep, count of examined nodes, route and result.
C9_TrackingDoesNotInfluence ==
    turn = TRUE => call[TRUE] = call[FALSE]

\* both calls have returned a path after several sweeps, and their nodes
\* differ
C9_Witness ==
    /\ \A t \in Finders : Done(t) /\ call[t].j >= 1 /\ Len(call[t].result) >= 3
    /\ \E c \in CellsOf(grid) : nodes[TRUE][c] # nodes[FALSE][c]
    /\ \E c \in CellsOf(grid) : nodes[TRUE][c].retainCount > 0

\* C10 (as claimed): a non-empty path returned by findPath contains no
\* coordinate more than once, whatever the weight.
C10_NoRevisit ==
    \A t \in Finders :
        (Done(t) /\ call[t].result # <<>>) => NoRepeats(call[t].result)

\* C10 (amended): with weight 1 and an admissible heuristic, a non-empty
\* path returned by findPath contains no coordinate more than once.
C10_NoRevisitAtWeightOne ==
    \A t \in Finders :
        (Done(t) /\ call[t].result # <<>> /\ finder[t].weight = 1
            /\ Admissible) =>
            NoRepeats(call[t].result)

\* a path of four cells or more at weight 1 on a grid with an obstacle
C10_Witness ==
    \E t \in Finders :
        /\ Done(t)
        /\ finder[t].weight = 1
        /\ Admissible
        /\ Len(call[t].result) >= 4
        /\ grid.blocked # {}
        /\ call[t].visitedNode >= 10

=============================================================================
